---- MODULE Spec2Model ----
(***************************************************************************)
(* State machine of SalesEnsembleDashboard                                 *)
(* (src/sales-dashboard/src/app/page.tsx).                                 *)
(*                                                                         *)
(* Conventions                                                             *)
(*  - A nullable value (string | null, ChartDataPoint[] | null, an         *)
(*    optional property) is a sequence of length at most one: <<>> is      *)
(*    null / undefined / absent, <<v>> is the value v.                     *)
(*  - A JavaScript number is a fixed-point value with two decimals, held   *)
(*    as an integer count of hundredths: 41.5 is 4150 and 42 is 4200.      *)
(*  - A JavaScript string that the code takes apart (the text of a form    *)
(*    field) is a sequence of one-character strings; strings the code only *)
(*    passes around (ids, dates, messages) are TLA+ strings.  The Korean   *)
(*    literals of the source are written in English, the original is in    *)
(*    the comment next to each.                                            *)
(*  - Arrays are 1-based here, 0-based in the source.                       *)
(***************************************************************************)
EXTENDS Integers, Sequences, FiniteSets, TLC

VARIABLES
    products,            \* useState<Product[]>([])
    selectedProduct,     \* useState<string | null>(null)
    historicPredictions, \* useState<ChartDataPoint[] | null>(null)
    customPredictions,   \* useState<ChartDataPoint[] | null>(null)
    loading,             \* useState<boolean>(false)
    error,               \* useState<string | null>(null)
    activeTab,           \* useState<'historic' | 'custom'>('historic')
    customInput,         \* useState({product_id: '', unit_price: '', discount: ''})
    productsFetch,       \* the promise of fetch('/api/products')
    historicFetches,     \* the pending promises of fetch('/api/predict?...')
    customFetches        \* the pending promises of fetch('/api/predict_custom')

vars == <<products, selectedProduct, historicPredictions, customPredictions,
          loading, error, activeTab, customInput,
          productsFetch, historicFetches, customFetches>>

-----------------------------------------------------------------------------
(* Bounds *)

\* Longest date axis / number array of a response drawn in SpecReconcile.
MaxDays == 2
\* Most forecast requests (historic and custom together) pending at once.
MaxInFlight == 2

-----------------------------------------------------------------------------
(* Values *)

NULL == <<>>
UNDEFINED == <<>>
Some(v) == <<v>>

\* days=30 in the query string of the historic request
HorizonDays == 30

\* '제품 목록을 불러오는데 실패했습니다.'
ProductListMsg == "Failed to load the product list."
\* '예측 데이터를 가져오는데 실패했습니다.'
HistoricFailMsg == "Failed to fetch the prediction data."
\* '제품 ID와 단가는 필수 입력값입니다.'
ValidationMsg == "Product ID and unit price are required."
\* '예측에 실패했습니다.'
CustomFallbackMsg == "Prediction failed."
\* message of the TypeError fetch() rejects with when the endpoint is unreachable
NetworkFailMsg == "Failed to fetch"
\* message of the TypeError raised by indexing an undefined model array
TypeErrorMsg == "Cannot read properties of undefined (reading '0')"
\* an error text sent by the server in { error: string }
ServerMsg == "unknown product"

\* Series names of a ChartDataPoint.
\* '앙상블 예측'
KeyEnsemble == "Ensemble prediction"
\* '예측 판매량'
KeyPredicted == "Predicted quantity"
KeyDate == "date"
ModelKeys == {"RandomForest", "XGBoost", "Prophet"}
\* the property of model_predictions each series name is read from
ModelField(key) ==
    CASE key = "RandomForest" -> "random_forest"
      [] key = "XGBoost" -> "xgboost"
      [] key = "Prophet" -> "prophet"
ModelFields == {"random_forest", "xgboost", "prophet"}

\* JavaScript values an array read can give.
Num(h) == [type |-> "number", value |-> h]
NaN == [type |-> "NaN", value |-> 0]
Undefined == [type |-> "undefined", value |-> 0]

\* arr[index]: the element, or undefined past the end of the array.
At(arr, index) == IF index \in 1..Len(arr) THEN Num(arr[index]) ELSE Undefined

\* v || 0: undefined, NaN and 0 are falsy.
OrZero(v) == IF v = Undefined \/ v = NaN \/ v = Num(0) THEN Num(0) ELSE v

\* Math.round with a tie going down.
MathRoundHalfDown(v) ==
    IF v.type = "number" THEN Num(((v.value + 49) \div 100) * 100) ELSE NaN

\* Math.round(v): the nearest integer, a tie going up (floor(v + 0.5));
\* Math.round(undefined) is NaN.
MathRound(v) ==
    IF v.type = "number" THEN Num(((v.value + 50) \div 100) * 100) ELSE NaN

-----------------------------------------------------------------------------
(* The custom form's texts and their parsing *)

DigitChars == <<"0", "1", "2", "3", "4", "5", "6", "7", "8", "9">>
IsDigit(c) == \E i \in 1..Len(DigitChars) : DigitChars[i] = c
DigitValue(c) == (CHOOSE i \in 1..Len(DigitChars) : DigitChars[i] = c) - 1

\* The number of leading decimal digits of text.
RECURSIVE LeadingDigits(_)
LeadingDigits(text) ==
    IF text # <<>> /\ IsDigit(Head(text)) THEN 1 + LeadingDigits(Tail(text)) ELSE 0

\* The value of a sequence of decimal digits.
RECURSIVE DigitsValue(_)
DigitsValue(digits) ==
    IF digits = <<>> THEN 0
    ELSE 10 * DigitsValue(SubSeq(digits, 1, Len(digits) - 1))
         + DigitValue(digits[Len(digits)])

\* parseInt(text): the leading digits, NaN when there are none.
ParseInt(text) ==
    LET n == LeadingDigits(text)
    IN  IF n = 0 THEN NaN ELSE Num(100 * DigitsValue(SubSeq(text, 1, n)))

\* parseFloat(text): digits, then optionally a point and digits; NaN when
\* there is no digit.  Two decimals are kept.
ParseFloat(text) ==
    LET n == LeadingDigits(text)
        rest == SubSeq(text, n + 1, Len(text))
        frac == IF rest # <<>> /\ Head(rest) = "."
                THEN SubSeq(Tail(rest), 1, LeadingDigits(Tail(rest)))
                ELSE <<>>
        tenths == IF Len(frac) >= 1 THEN DigitValue(frac[1]) ELSE 0
        hundredths == IF Len(frac) >= 2 THEN DigitValue(frac[2]) ELSE 0
    IN  IF n = 0 /\ frac = <<>> THEN NaN
        ELSE Num(100 * DigitsValue(SubSeq(text, 1, n)) + 10 * tenths + hundredths)

\* Texts typed into the three fields; <<>> is the empty string.
ProductIdTexts == {<<>>, <<"7">>}
UnitPriceTexts == {<<>>, <<"1", "0">>}
DiscountTexts == {<<>>, <<"0", ".", "2">>}
FieldTexts(field) ==
    CASE field = "product_id" -> ProductIdTexts
      [] field = "unit_price" -> UnitPriceTexts
      [] field = "discount" -> DiscountTexts
CustomFields == {"product_id", "unit_price", "discount"}

\* JSON body of POST /api/predict_custom
RequestBody(input) ==
    [product_id |-> ParseInt(input.product_id),
     unit_price |-> ParseFloat(input.unit_price),
     discount |-> IF input.discount # <<>> THEN ParseFloat(input.discount) ELSE Num(0)]

-----------------------------------------------------------------------------
(* Responses of the forecast service *)

\* A Product; only id takes part in the transitions, the other fields are
\* displayed.  Ids are non-empty strings.
Product(id) == [id |-> id]
ProductIds == {"1", "2"}
ProductLists ==
    {<<>>, <<Product("1")>>, <<Product("2"), Product("1")>>}

\* What fetch('/api/products') settles with: the endpoint is unreachable, or
\* a response with a status (ok or not) whose body is JSON or not and, when
\* it is JSON, has a products property or not.
ProductsResponse(reachable, ok, json, list) ==
    [reachable |-> reachable, ok |-> ok, json |-> json, products |-> list]
ProductsResponses ==
    {ProductsResponse(FALSE, FALSE, FALSE, UNDEFINED),
     ProductsResponse(TRUE, FALSE, FALSE, UNDEFINED),
     ProductsResponse(TRUE, FALSE, TRUE, UNDEFINED)}
    \cup {ProductsResponse(TRUE, TRUE, TRUE, Some(l)) : l \in ProductLists}

\* JSON body of a forecast response (CustomApiResponse, or { error }).
\* model_predictions is absent (<<>>) or a map from some of ModelFields to
\* number arrays; error is absent or a string.
Body(dates, predictions, model_predictions, err) ==
    [dates |-> dates, predictions |-> predictions,
     model_predictions |-> model_predictions, error |-> err]
NoBody == Body(<<>>, <<>>, UNDEFINED, UNDEFINED)

\* What a forecast fetch settles with: the endpoint is unreachable, or a
\* response with response.ok and a JSON body.
Unreachable == [reachable |-> FALSE, ok |-> FALSE, body |-> NoBody]
Failure(err) ==
    [reachable |-> TRUE, ok |-> FALSE, body |-> Body(<<>>, <<>>, UNDEFINED, err)]
Success(body) == [reachable |-> TRUE, ok |-> TRUE, body |-> body]

Dates == {"2024-01-01", "2024-01-02"}

\* Bodies the service answers with in Spec: the complete answer, the answer
\* whose model map holds random_forest alone, the answer without a model
\* map, and the answer whose number arrays are shorter than the date axis.
CompleteBody ==
    Body(<<"2024-01-01", "2024-01-02">>, <<1020, 1180>>,
         Some([f \in ModelFields |-> <<990, 1210>>]), UNDEFINED)
PartialMapBody ==
    Body(<<"2024-01-01", "2024-01-02">>, <<1020, 1180>>,
         Some([f \in {"random_forest"} |-> <<990, 1210>>]), UNDEFINED)
NoMapBody == Body(<<"2024-01-02">>, <<4150>>, UNDEFINED, UNDEFINED)
ShortArraysBody ==
    Body(<<"2024-01-01", "2024-01-02">>, <<4149>>,
         Some([f \in ModelFields |-> <<990>>]), UNDEFINED)

HistoricBodies ==
    {CompleteBody, PartialMapBody, NoMapBody, ShortArraysBody}
CustomBodies == {CompleteBody, NoMapBody}

HistoricResponses ==
    {Unreachable, Failure(UNDEFINED)} \cup {Success(b) : b \in HistoricBodies}
CustomResponses ==
    {Unreachable, Failure(UNDEFINED), Failure(Some(ServerMsg))}
    \cup {Success(b) : b \in CustomBodies}

\* The request names the product (product_id in the query string), and the
\* service keeps different sales data for different products: product "1"
\* has the two-day answers, product "2" the one-day answer without a model
\* map.  A series stored in historicPredictions therefore tells which
\* product it was fetched for.  The answer with the partial map is given
\* for either product.
HistoricBodiesFor(productId) ==
    IF productId = "1"
    THEN {CompleteBody, PartialMapBody, ShortArraysBody}
    ELSE {NoMapBody, PartialMapBody}
HistoricResponsesFor(productId) ==
    {Unreachable, Failure(UNDEFINED)}
    \cup {Success(b) : b \in HistoricBodiesFor(productId)}

-----------------------------------------------------------------------------
(* Series reconciliation: the two data.dates.map(...) calls *)

\* data.model_predictions?.<field>[index]: undefined when the map is absent
\* (the optional chain stops); the read of an absent field's index throws,
\* see HistoricThrows.
ModelValue(data, field, index) ==
    IF data.model_predictions = UNDEFINED THEN Undefined
    ELSE At(data.model_predictions[1][field], index)

\* The map callback of fetchHistoricPredictions raises a TypeError: it runs
\* (there is a date) and the map is there without one of the three arrays.
HistoricThrows(data) ==
    /\ data.dates # <<>>
    /\ data.model_predictions # UNDEFINED
    /\ \E field \in ModelFields : field \notin DOMAIN data.model_predictions[1]

HistoricPoint(data, index) ==
    [key \in {KeyDate, KeyEnsemble} \cup ModelKeys |->
        IF key = KeyDate THEN data.dates[index]
        ELSE IF key = KeyEnsemble THEN MathRound(At(data.predictions, index))
        ELSE MathRound(OrZero(ModelValue(data, ModelField(key), index)))]

HistoricChartData(data) ==
    [index \in 1..Len(data.dates) |-> HistoricPoint(data, index)]

\* CustomPoint with Math.floor in place of Math.round.
CustomPointFloor(data, index) ==
    [key \in {KeyDate, KeyPredicted} |->
        IF key = KeyDate THEN data.dates[index]
        ELSE IF index \in 1..Len(data.predictions)
             THEN Num((data.predictions[index] \div 100) * 100)
             ELSE NaN]

CustomPoint(data, index) ==
    [key \in {KeyDate, KeyPredicted} |->
        IF key = KeyDate THEN data.dates[index]
        ELSE MathRound(At(data.predictions, index))]

CustomChartData(data) ==
    [index \in 1..Len(data.dates) |-> CustomPoint(data, index)]

-----------------------------------------------------------------------------
(* The component *)

Init ==
    /\ products = Some(<<>>)
    /\ selectedProduct = NULL
    /\ historicPredictions = NULL
    /\ customPredictions = NULL
    /\ loading = FALSE
    /\ error = NULL
    /\ activeTab = "historic"
    /\ customInput = [product_id |-> <<>>, unit_price |-> <<>>, discount |-> <<>>]
    /\ productsFetch = "pending"
    /\ historicFetches = {}
    /\ customFetches = {}

InFlight == Cardinality(historicFetches) + Cardinality(customFetches)

\* Identity of a new promise among the pending ones.
FreeId(fetches) ==
    CHOOSE i \in 1..(Cardinality(fetches) + 1) :
        /\ \A c \in fetches : c.id # i
        /\ \A j \in 1..(i - 1) : \E c \in fetches : c.id = j

\* SelectedProductEffect run on every selection, changed or not.
SelectedProductEffectNoDeps(next) ==
    IF next # NULL
    THEN historicFetches \cup
            {[id |-> FreeId(historicFetches), productId |-> next[1],
              days |-> HorizonDays]}
    ELSE historicFetches

\* SelectedProductEffect with an empty dependency array: it runs on mount
\* alone, when selectedProduct is still null, and never fetches.
SelectedProductEffectMountOnly(next) == historicFetches

\* useEffect(..., [selectedProduct]) for the render in which selectedProduct
\* is next: the effect runs when the dependency changed, and fetches when
\* the value is truthy.  Gives the pending historic fetches after it.
SelectedProductEffect(next) ==
    IF next # selectedProduct /\ next # NULL
    THEN historicFetches \cup
            {[id |-> FreeId(historicFetches), productId |-> next[1],
              days |-> HorizonDays]}
    ELSE historicFetches

\* SelectProduct that clears the stored series when the selection changes.
SelectProductClearing(id) ==
    /\ activeTab = "historic"
    /\ products # UNDEFINED
    /\ \E i \in 1..Len(products[1]) : products[1][i].id = id
    /\ Some(id) # selectedProduct => InFlight < MaxInFlight
    /\ selectedProduct' = Some(id)
    /\ historicFetches' = SelectedProductEffect(Some(id))
    /\ historicPredictions' =
          IF Some(id) # selectedProduct THEN NULL ELSE historicPredictions
    /\ UNCHANGED <<products, customPredictions, loading,
                   error, activeTab, customInput, productsFetch, customFetches>>

\* <select onChange>: shown on the historic tab once there are products.
SelectProduct(id) ==
    /\ activeTab = "historic"
    /\ products # UNDEFINED
    /\ \E i \in 1..Len(products[1]) : products[1][i].id = id
    /\ Some(id) # selectedProduct => InFlight < MaxInFlight
    /\ selectedProduct' = Some(id)
    /\ historicFetches' = SelectedProductEffect(Some(id))
    /\ UNCHANGED <<products, historicPredictions, customPredictions, loading,
                   error, activeTab, customInput, productsFetch, customFetches>>

\* SetActiveTab that also clears the error message.
SetActiveTabClearingError(tab) ==
    /\ activeTab' = tab
    /\ error' = NULL
    /\ UNCHANGED <<products, selectedProduct, historicPredictions,
                   customPredictions, loading, customInput,
                   productsFetch, historicFetches, customFetches>>

\* The two tab buttons.
SetActiveTab(tab) ==
    /\ activeTab' = tab
    /\ UNCHANGED <<products, selectedProduct, historicPredictions,
                   customPredictions, loading, error, customInput,
                   productsFetch, historicFetches, customFetches>>

\* <input onChange> of the custom tab.
SetCustomInput(field, text) ==
    /\ activeTab = "custom"
    /\ customInput' = [customInput EXCEPT ![field] = text]
    /\ UNCHANGED <<products, selectedProduct, historicPredictions,
                   customPredictions, loading, error, activeTab,
                   productsFetch, historicFetches, customFetches>>

\* MissingRequired with && in place of ||.
MissingRequiredBoth(input) == input.product_id = <<>> /\ input.unit_price = <<>>

\* !customInput.product_id || !customInput.unit_price
MissingRequired(input) == input.product_id = <<>> \/ input.unit_price = <<>>

\* handleCustomSubmit up to its await fetch(...)
HandleCustomSubmit ==
    /\ activeTab = "custom"
    /\ IF MissingRequired(customInput)
       THEN /\ error' = Some(ValidationMsg)
            /\ UNCHANGED <<loading, customFetches>>
       ELSE /\ InFlight < MaxInFlight
            /\ loading' = TRUE
            /\ error' = NULL
            /\ customFetches' = customFetches \cup
                  {[id |-> FreeId(customFetches), body |-> RequestBody(customInput)]}
    /\ UNCHANGED <<products, selectedProduct, historicPredictions,
                   customPredictions, activeTab, customInput, productsFetch,
                   historicFetches>>

\* CustomFailureMessage that drops the server's text.
CustomFailureMessageFixed(body) == CustomFallbackMsg

\* errorData.error || '...': the server's text unless it is absent or empty.
CustomFailureMessage(body) ==
    IF body.error # UNDEFINED /\ body.error[1] # "" THEN body.error[1]
    ELSE CustomFallbackMsg

\* CustomResolve that resets the form after a success.
CustomResolveResetForm(c, resp) ==
    /\ c \in customFetches
    /\ customFetches' = customFetches \ {c}
    /\ IF ~resp.reachable
       THEN /\ error' = Some(NetworkFailMsg)
            /\ UNCHANGED <<customPredictions, customInput>>
       ELSE IF ~resp.ok
       THEN /\ error' = Some(CustomFailureMessage(resp.body))
            /\ UNCHANGED <<customPredictions, customInput>>
       ELSE /\ customPredictions' = Some(CustomChartData(resp.body))
            /\ customInput' = [product_id |-> <<>>, unit_price |-> <<>>,
                               discount |-> <<>>]
            /\ UNCHANGED error
    /\ loading' = FALSE
    /\ UNCHANGED <<products, selectedProduct, historicPredictions, activeTab,
                   productsFetch, historicFetches>>

\* CustomResolve without the finally block: loading stays as it is.
CustomResolveNoFinally(c, resp) ==
    /\ c \in customFetches
    /\ customFetches' = customFetches \ {c}
    /\ IF ~resp.reachable
       THEN /\ error' = Some(NetworkFailMsg)
            /\ UNCHANGED customPredictions
       ELSE IF ~resp.ok
       THEN /\ error' = Some(CustomFailureMessage(resp.body))
            /\ UNCHANGED customPredictions
       ELSE /\ customPredictions' = Some(CustomChartData(resp.body))
            /\ UNCHANGED error
    /\ UNCHANGED <<products, selectedProduct, historicPredictions, activeTab,
                   customInput, productsFetch, historicFetches, loading>>

\* handleCustomSubmit from the settling of its fetch to the end of finally.
\* Everything thrown in the try block is an Error, so the catch block's else
\* branch ('알 수 없는 오류가 발생했습니다.') is not taken.
CustomResolve(c, resp) ==
    /\ c \in customFetches
    /\ customFetches' = customFetches \ {c}
    /\ IF ~resp.reachable
       THEN /\ error' = Some(NetworkFailMsg)
            /\ UNCHANGED customPredictions
       ELSE IF ~resp.ok
       THEN /\ error' = Some(CustomFailureMessage(resp.body))
            /\ UNCHANGED customPredictions
       ELSE /\ customPredictions' = Some(CustomChartData(resp.body))
            /\ UNCHANGED error
    /\ loading' = FALSE
    /\ UNCHANGED <<products, selectedProduct, historicPredictions, activeTab,
                   customInput, productsFetch, historicFetches>>

\* HistoricResolve whose catch also clears the series.
HistoricResolveClearing(c, resp) ==
    /\ c \in historicFetches
    /\ historicFetches' = historicFetches \ {c}
    /\ IF ~resp.reachable
       THEN /\ error' = Some(NetworkFailMsg)
            /\ historicPredictions' = NULL
       ELSE IF ~resp.ok
       THEN /\ error' = Some(HistoricFailMsg)
            /\ historicPredictions' = NULL
       ELSE IF HistoricThrows(resp.body)
       THEN /\ error' = Some(TypeErrorMsg)
            /\ historicPredictions' = NULL
       ELSE /\ historicPredictions' = Some(HistoricChartData(resp.body))
            /\ UNCHANGED error
    /\ UNCHANGED <<products, selectedProduct, customPredictions, loading,
                   activeTab, customInput, productsFetch, customFetches>>

\* HistoricResolve that drops the answer to a fetch whose product is no
\* longer the selected one.
HistoricResolveCurrentOnly(c, resp) ==
    /\ c \in historicFetches
    /\ historicFetches' = historicFetches \ {c}
    /\ IF Some(c.productId) # selectedProduct
       THEN UNCHANGED <<error, historicPredictions>>
       ELSE IF ~resp.reachable
       THEN /\ error' = Some(NetworkFailMsg)
            /\ UNCHANGED historicPredictions
       ELSE IF ~resp.ok
       THEN /\ error' = Some(HistoricFailMsg)
            /\ UNCHANGED historicPredictions
       ELSE IF HistoricThrows(resp.body)
       THEN /\ error' = Some(TypeErrorMsg)
            /\ UNCHANGED historicPredictions
       ELSE /\ historicPredictions' = Some(HistoricChartData(resp.body))
            /\ UNCHANGED error
    /\ UNCHANGED <<products, selectedProduct, customPredictions, loading,
                   activeTab, customInput, productsFetch, customFetches>>

\* fetchHistoricPredictions from the settling of its fetch on.
HistoricResolve(c, resp) ==
    /\ c \in historicFetches
    /\ historicFetches' = historicFetches \ {c}
    /\ IF ~resp.reachable
       THEN /\ error' = Some(NetworkFailMsg)
            /\ UNCHANGED historicPredictions
       ELSE IF ~resp.ok
       THEN /\ error' = Some(HistoricFailMsg)
            /\ UNCHANGED historicPredictions
       ELSE IF HistoricThrows(resp.body)
       THEN /\ error' = Some(TypeErrorMsg)
            /\ UNCHANGED historicPredictions
       ELSE /\ historicPredictions' = Some(HistoricChartData(resp.body))
            /\ UNCHANGED error
    /\ UNCHANGED <<products, selectedProduct, customPredictions, loading,
                   activeTab, customInput, productsFetch, customFetches>>

\* ProductsResolve without the catch: a failure leaves error as it is.
ProductsResolveNoCatch(resp) ==
    /\ productsFetch = "pending"
    /\ productsFetch' = "settled"
    /\ IF ~resp.reachable \/ ~resp.json
       THEN UNCHANGED <<error, products, selectedProduct, historicFetches>>
       ELSE IF resp.products = UNDEFINED
       THEN /\ products' = UNDEFINED
            /\ UNCHANGED <<error, selectedProduct, historicFetches>>
       ELSE /\ products' = resp.products
            /\ IF Len(resp.products[1]) > 0
               THEN /\ InFlight < MaxInFlight
                    /\ selectedProduct' = Some(resp.products[1][1].id)
                    /\ historicFetches' =
                          SelectedProductEffect(Some(resp.products[1][1].id))
               ELSE UNCHANGED <<selectedProduct, historicFetches>>
            /\ UNCHANGED error
    /\ UNCHANGED <<historicPredictions, customPredictions, loading, activeTab,
                   customInput, customFetches>>

\* The then/catch chain of the product-list effect, and the
\* selectedProduct effect of the render that follows it.  res.ok is not
\* read.  A JSON body without products is stored by setProducts before
\* data.products.length throws into the catch.
ProductsResolve(resp) ==
    /\ productsFetch = "pending"
    /\ productsFetch' = "settled"
    /\ IF ~resp.reachable \/ ~resp.json
       THEN /\ error' = Some(ProductListMsg)
            /\ UNCHANGED <<products, selectedProduct, historicFetches>>
       ELSE IF resp.products = UNDEFINED
       THEN /\ products' = UNDEFINED
            /\ error' = Some(ProductListMsg)
            /\ UNCHANGED <<selectedProduct, historicFetches>>
       ELSE /\ products' = resp.products
            /\ IF Len(resp.products[1]) > 0
               THEN /\ InFlight < MaxInFlight
                    /\ selectedProduct' = Some(resp.products[1][1].id)
                    /\ historicFetches' =
                          SelectedProductEffect(Some(resp.products[1][1].id))
               ELSE UNCHANGED <<selectedProduct, historicFetches>>
            /\ UNCHANGED error
    /\ UNCHANGED <<historicPredictions, customPredictions, loading, activeTab,
                   customInput, customFetches>>

-----------------------------------------------------------------------------
\* What the render shows.

\* getCurrentPredictions with only the historic branch.
getCurrentPredictionsHistoricOnly ==
    IF historicPredictions # NULL THEN historicPredictions[1] ELSE <<>>

\* getCurrentPredictions(): the cache of the active tab, [] for a null one.
getCurrentPredictions ==
    IF activeTab = "historic"
    THEN IF historicPredictions # NULL THEN historicPredictions[1] ELSE <<>>
    ELSE IF customPredictions # NULL THEN customPredictions[1] ELSE <<>>

\* renderChart(): null for an empty series, else the LineChart over the
\* series, with one Line per key of its first point other than 'date'.
renderChart ==
    IF Len(getCurrentPredictions) = 0
    THEN NULL
    ELSE Some([data |-> getCurrentPredictions,
               lines |-> DOMAIN getCurrentPredictions[1] \ {KeyDate}])

\* The result area of the page: the loading text while loading is true,
\* else what renderChart gives.
ResultArea ==
    IF loading
    THEN [loadingText |-> TRUE, chart |-> NULL]
    ELSE [loadingText |-> FALSE, chart |-> renderChart]

\* The series drawn on the page, empty when no chart is drawn.
DisplayedSeries ==
    IF ResultArea.chart = NULL THEN <<>> ELSE ResultArea.chart[1].data

Next ==
    \/ \E resp \in ProductsResponses : ProductsResolve(resp)
    \/ \E id \in ProductIds : SelectProduct(id)
    \/ \E tab \in {"historic", "custom"} : SetActiveTab(tab)
    \/ \E field \in CustomFields : \E text \in FieldTexts(field) :
          SetCustomInput(field, text)
    \/ HandleCustomSubmit
    \/ \E c \in historicFetches :
          \E resp \in HistoricResponsesFor(c.productId) :
             HistoricResolve(c, resp)
    \/ \E c \in customFetches : \E resp \in CustomResponses :
          CustomResolve(c, resp)

Spec == Init /\ [][Next]_vars

-----------------------------------------------------------------------------
(* Reconciliation over all bounded responses *)

\* Every sequence over S of length at most MaxDays.
ArraysOver(S) == UNION {[1..n -> S] : n \in 0..MaxDays}

DateAxes == ArraysOver(Dates)
PredictionArrays == ArraysOver({4149, 4150})
ModelArrays == ArraysOver({990})
\* No map, or a map giving one array to each field of some of ModelFields.
ModelMaps ==
    {UNDEFINED} \cup
    {Some([f \in F |-> a]) : F \in SUBSET ModelFields, a \in ModelArrays}

AllHistoricResponses ==
    {Unreachable, Failure(UNDEFINED)} \cup
    {Success(Body(d, p, m, UNDEFINED)) :
        d \in DateAxes, p \in PredictionArrays, m \in ModelMaps}
AllCustomResponses ==
    {Unreachable, Failure(UNDEFINED), Failure(Some(ServerMsg))} \cup
    {Success(Body(d, p, m, UNDEFINED)) :
        d \in DateAxes, p \in PredictionArrays,
        m \in {UNDEFINED, Some([f \in ModelFields |-> <<990>>])}}

\* Two states of Spec.  Product "1" was selected at start and its fetch is
\* pending.
InitReconcileHistoric ==
    /\ products = Some(<<Product("1")>>)
    /\ selectedProduct = Some("1")
    /\ historicPredictions = NULL
    /\ customPredictions = NULL
    /\ loading = FALSE
    /\ error = NULL
    /\ activeTab = "historic"
    /\ customInput = [product_id |-> <<>>, unit_price |-> <<>>, discount |-> <<>>]
    /\ productsFetch = "settled"
    /\ historicFetches = {[id |-> 1, productId |-> "1", days |-> HorizonDays]}
    /\ customFetches = {}

\* That fetch found the endpoint unreachable, and the custom form was then
\* filled and submitted.
InitReconcileCustom ==
    /\ products = Some(<<Product("1")>>)
    /\ selectedProduct = Some("1")
    /\ historicPredictions = NULL
    /\ customPredictions = NULL
    /\ loading = TRUE
    /\ error = NULL
    /\ activeTab = "custom"
    /\ customInput = [product_id |-> <<"7">>, unit_price |-> <<"1", "0">>,
                      discount |-> <<>>]
    /\ productsFetch = "settled"
    /\ historicFetches = {}
    /\ customFetches = {[id |-> 1, body |-> RequestBody(customInput)]}

InitReconcile == InitReconcileHistoric \/ InitReconcileCustom

NextReconcile ==
    \/ \E c \in historicFetches : \E resp \in AllHistoricResponses :
          HistoricResolve(c, resp)
    \/ \E c \in customFetches : \E resp \in AllCustomResponses :
          CustomResolve(c, resp)

SpecReconcile == InitReconcile /\ [][NextReconcile]_vars

-----------------------------------------------------------------------------
(* Properties *)

\* r is x rounded half-up to an integer: the integer n with n - 0.5 <= x < n + 0.5.
IsRounded(x, r) ==
    /\ r.type = "number"
    /\ r.value % 100 = 0
    /\ r.value - 50 <= x
    /\ x < r.value + 50

\* series is the reconciliation of a historic response body: one point per
\* date in date order, each with the date, the rounded ensemble value and,
\* per declared model, the rounded model value or 0 where the model's array
\* or its value at that index is missing.
HistoricSeriesOf(series, body) ==
    /\ Len(series) = Len(body.dates)
    /\ \A i \in 1..Len(series) :
        /\ DOMAIN series[i] = {KeyDate, KeyEnsemble} \cup ModelKeys
        /\ series[i][KeyDate] = body.dates[i]
        /\ i <= Len(body.predictions) =>
              IsRounded(body.predictions[i], series[i][KeyEnsemble])
        /\ \A key \in ModelKeys :
              IF /\ body.model_predictions # UNDEFINED
                 /\ ModelField(key) \in DOMAIN body.model_predictions[1]
                 /\ i <= Len(body.model_predictions[1][ModelField(key)])
              THEN IsRounded(body.model_predictions[1][ModelField(key)][i],
                             series[i][key])
              ELSE series[i][key] = Num(0)

\* series is the reconciliation of a custom response body: one point per
\* date in date order, each with the date and the predicted-quantity series
\* alone, the rounded prediction.
CustomSeriesOf(series, body) ==
    /\ Len(series) = Len(body.dates)
    /\ \A i \in 1..Len(series) :
        /\ DOMAIN series[i] = {KeyDate, KeyPredicted}
        /\ series[i][KeyDate] = body.dates[i]
        /\ i <= Len(body.predictions) =>
              IsRounded(body.predictions[i], series[i][KeyPredicted])

\* C1: every historic fetch that is answered with success stores the
\* reconciliation of that answer in historicPredictions, and no step that
\* starts or settles a historic fetch changes customPredictions.
C1_SelectionReplacesHistoric ==
    [][/\ \A c \in historicFetches : \A resp \in HistoricResponses :
            (HistoricResolve(c, resp) /\ resp.reachable /\ resp.ok) =>
                /\ historicPredictions' # NULL
                /\ HistoricSeriesOf(historicPredictions'[1], resp.body)
       /\ historicFetches' # historicFetches =>
            customPredictions' = customPredictions]_vars

\* C2: a submission with a blank product id or a blank unit price sets error
\* to the validation message, issues no request and leaves loading and both
\* series as they are.
C2_BlankSubmitRejected ==
    [][(HandleCustomSubmit
        /\ (customInput.product_id = <<>> \/ customInput.unit_price = <<>>)) =>
            /\ error' = Some(ValidationMsg)
            /\ UNCHANGED <<productsFetch, historicFetches, customFetches>>
            /\ UNCHANGED <<loading, customPredictions, historicPredictions>>]_vars

\* C2 witness: the form was submitted with product id empty and unit price
\* "10"; the validation message shows and nothing is pending.
C2_Witness ==
    /\ error = Some(ValidationMsg)
    /\ customInput.product_id = <<>>
    /\ customInput.unit_price = <<"1", "0">>
    /\ customInput.discount = <<"0", ".", "2">>
    /\ customFetches = {}
    /\ ~loading

\* C3: a successful historic answer whose model map is there is stored
\* without an error, every point carrying every model key, with 0 where the
\* model's array or its value at that index is missing.
C3_MissingModelArrayIsZero ==
    [][\A c \in historicFetches : \A resp \in HistoricResponses :
        (/\ HistoricResolve(c, resp)
         /\ resp.reachable /\ resp.ok
         /\ resp.body.model_predictions # UNDEFINED) =>
            /\ error' = error
            /\ historicPredictions' # NULL
            /\ Len(historicPredictions'[1]) = Len(resp.body.dates)
            /\ \A i \in 1..Len(resp.body.dates) : \A key \in ModelKeys :
                /\ key \in DOMAIN historicPredictions'[1][i]
                /\ (\/ ModelField(key) \notin DOMAIN resp.body.model_predictions[1]
                    \/ i > Len(resp.body.model_predictions[1][ModelField(key)]))
                   => historicPredictions'[1][i][key] = Num(0)]_vars

\* C4 as stated: every selection event, of the selected product too, issues
\* a new historic fetch for that product over 30 days: in no state can a
\* product be selected without such a fetch being added to the pending ones.
C4_EverySelectionFetches ==
    \A id \in ProductIds :
        ~ENABLED (/\ SelectProduct(id)
                  /\ ~\E c \in historicFetches' :
                        /\ c \notin historicFetches
                        /\ c.productId = id
                        /\ c.days = 30)

\* C4 amended: a step that changes selectedProduct issues exactly one new
\* historic fetch, for the new product over 30 days; a step that leaves
\* selectedProduct as it is (selecting the selected product is one) issues
\* none.
C4_SelectionFetchesOnChange ==
    [][/\ \A id \in ProductIds : SelectProduct(id) => selectedProduct' = Some(id)
       /\ IF selectedProduct' # selectedProduct
          THEN \E c \in historicFetches' :
                  /\ c \notin historicFetches
                  /\ historicFetches' = historicFetches \cup {c}
                  /\ Some(c.productId) = selectedProduct'
                  /\ c.days = 30
          ELSE historicFetches' \subseteq historicFetches]_vars

\* C4 witness: product "1" then product "2" were selected and each selection
\* issued its fetch.
C4_Witness ==
    /\ selectedProduct = Some("2")
    /\ \E c1 \in historicFetches : \E c2 \in historicFetches :
          c1.productId = "1" /\ c2.productId = "2"

\* C5: while a historic fetch is the only operation pending loading is
\* true, and it is false when nothing is pending.
C5_LoadingWhileHistoricPending ==
    productsFetch = "settled" /\ customFetches = {} =>
        (loading <=> historicFetches # {})

\* C6: a step that starts a historic or a custom request leaves error null.
C6_NewOperationClearsError ==
    [][(\/ \E c \in historicFetches' : c \notin historicFetches
        \/ \E c \in customFetches' : c \notin customFetches) =>
            error' = NULL]_vars

\* C7: after a historic fetch is answered with success, historicPredictions
\* has one point per date of the answer, in the answer's date order, every
\* point with the same keys: date, the ensemble series, one per model.
C7_HistoricSeriesShape ==
    [][\A c \in historicFetches : \A resp \in HistoricResponses :
        (HistoricResolve(c, resp) /\ resp.reachable /\ resp.ok) =>
            /\ historicPredictions' # NULL
            /\ Len(historicPredictions'[1]) = Len(resp.body.dates)
            /\ \A i \in 1..Len(resp.body.dates) :
                /\ DOMAIN historicPredictions'[1][i] =
                      {KeyDate, KeyEnsemble} \cup ModelKeys
                /\ historicPredictions'[1][i][KeyDate] = resp.body.dates[i]]_vars

\* C8: a custom submission answered with success stores one point per date
\* of the answer, in the answer's order, each with the predicted-quantity
\* series alone, the rounded prediction, whether or not the answer carries
\* model_predictions.
C8_CustomSeriesSingleKey ==
    [][\A c \in customFetches : \A resp \in AllCustomResponses :
        (CustomResolve(c, resp) /\ resp.reachable /\ resp.ok) =>
            /\ customPredictions' # NULL
            /\ CustomSeriesOf(customPredictions'[1], resp.body)]_vars

\* C8 witness: a two-day answer was stored, dates in the answer's order,
\* 41.5 rounded to 42 and 41.49 to 41.
C8_Witness ==
    /\ customPredictions # NULL
    /\ Len(customPredictions[1]) = 2
    /\ customPredictions[1][1][KeyDate] = "2024-01-02"
    /\ customPredictions[1][1][KeyPredicted] = Num(4200)
    /\ customPredictions[1][2][KeyDate] = "2024-01-01"
    /\ customPredictions[1][2][KeyPredicted] = Num(4100)
    /\ customFetches = {}

\* C9: a step that changes activeTab changes nothing else: no request is
\* issued or settled, and selection, both series, loading, error and the
\* custom input stay.
C9_TabSwitchIsLocal ==
    [][activeTab' # activeTab =>
        UNCHANGED <<products, selectedProduct, historicPredictions,
                    customPredictions, loading, error, customInput,
                    productsFetch, historicFetches, customFetches>>]_vars

\* C9 witness: both series were fetched, the custom one on the custom tab,
\* and the historic tab is active again with both still stored.
C9_Witness ==
    /\ activeTab = "historic"
    /\ historicPredictions # NULL
    /\ customPredictions # NULL
    /\ historicFetches = {} /\ customFetches = {}

\* C10: when a submitted custom request fails, error becomes the failure's
\* message (for a non-success status the server's error text, else the
\* fallback), loading becomes false and customPredictions stays.
C10_CustomFailure ==
    [][\A c \in customFetches : \A resp \in CustomResponses :
        (CustomResolve(c, resp) /\ ~(resp.reachable /\ resp.ok)) =>
            /\ error' = Some(IF ~resp.reachable THEN NetworkFailMsg
                             ELSE IF resp.body.error # UNDEFINED
                                  THEN resp.body.error[1]
                                  ELSE CustomFallbackMsg)
            /\ loading' = FALSE
            /\ customPredictions' = customPredictions]_vars

\* C10 witness: a submission succeeded, a later one was refused with the
\* server's text; the earlier series is still stored.
C10_Witness ==
    /\ error = Some(ServerMsg)
    /\ ~loading
    /\ customPredictions # NULL
    /\ customFetches = {}

-----------------------------------------------------------------------------
\* C11: when the product list arrives (a response with a list of products),
\* the list is stored as it came; a non-empty list makes its first product
\* the selected one and issues exactly one historic fetch, for that product
\* and the 30-day horizon; an empty list leaves selectedProduct unset and
\* issues no historic fetch.
C11_ListArrival ==
    [][\A resp \in ProductsResponses :
          (ProductsResolve(resp) /\ resp.reachable /\ resp.ok
              /\ resp.products # UNDEFINED)
          => /\ products' = resp.products
             /\ IF Len(resp.products[1]) > 0
                THEN /\ selectedProduct' = Some(resp.products[1][1].id)
                     /\ \E c \in historicFetches' \ historicFetches :
                           /\ historicFetches' = historicFetches \cup {c}
                           /\ c.productId = resp.products[1][1].id
                           /\ c.days = 30
                ELSE /\ selectedProduct' = NULL
                     /\ historicFetches' = historicFetches
                     /\ historicFetches' = {}]_vars

\* The list <<"2", "1">> has arrived: "2" is selected and its fetch, the
\* only one, is in flight.
C11_Witness ==
    /\ productsFetch = "settled"
    /\ products = Some(<<Product("2"), Product("1")>>)
    /\ selectedProduct = Some("2")
    /\ Cardinality(historicFetches) = 1
    /\ \A c \in historicFetches : c.productId = "2" /\ c.days = 30

-----------------------------------------------------------------------------
\* The cache of the active tab as a sequence, empty for a cache never set.
ActiveCache ==
    IF activeTab = "historic"
    THEN IF historicPredictions = NULL THEN <<>> ELSE historicPredictions[1]
    ELSE IF customPredictions = NULL THEN <<>> ELSE customPredictions[1]

\* A tab button that can be pressed starts no fetch.
TabSwitchStartsNoFetch ==
    \A tab \in {"historic", "custom"} :
        ~ENABLED (SetActiveTab(tab) /\ (historicFetches' # historicFetches
                                        \/ customFetches' # customFetches))

\* C12 as stated: in every reachable state the series drawn on the page is
\* the historic cache on the historic tab and the custom cache on the custom
\* tab, and no series when that cache was never set; a tab switch starts
\* no fetch.
C12_DisplayedIsActiveCache ==
    /\ DisplayedSeries = ActiveCache
    /\ TabSwitchStartsNoFetch

\* C12, amended: getCurrentPredictions always selects the cache of the
\* active tab; the page draws that series in every state where loading is
\* false, and draws the loading text and no chart while loading is true;
\* a tab switch starts no fetch.
C12_DisplayedUnlessLoading ==
    /\ getCurrentPredictions = ActiveCache
    /\ ~loading => DisplayedSeries = ActiveCache /\ ~ResultArea.loadingText
    /\ loading => DisplayedSeries = <<>> /\ ResultArea.loadingText
    /\ TabSwitchStartsNoFetch

\* Only the historic tab has fetched data; the custom tab is active, nothing
\* is loading or in flight, and no series is drawn.
C12_Witness ==
    /\ activeTab = "custom"
    /\ historicPredictions # NULL
    /\ customPredictions = NULL
    /\ ~loading
    /\ historicFetches = {} /\ customFetches = {}
    /\ DisplayedSeries = <<>>

-----------------------------------------------------------------------------
\* C13: every value of a stored series is the response's value at the same
\* index, rounded to the nearest integer with a tie going up (41.5 to 42,
\* 41.49 to 41); it is fixed by that one value, whatever the other indices
\* hold.  It covers the ensemble value and each model value of a historic
\* point, and the predicted quantity of a custom point.
C13_RoundHalfUp ==
    [][/\ historicPredictions' # historicPredictions =>
          \A c \in historicFetches : \A resp \in AllHistoricResponses :
            (resp.ok /\ HistoricResolve(c, resp)) =>
               \A i \in 1..Len(historicPredictions'[1]) :
                  /\ i <= Len(resp.body.predictions) =>
                        IsRounded(resp.body.predictions[i],
                                  historicPredictions'[1][i][KeyEnsemble])
                  /\ \A key \in ModelKeys :
                        (/\ resp.body.model_predictions # UNDEFINED
                         /\ i <= Len(resp.body.model_predictions[1]
                                        [ModelField(key)])) =>
                           IsRounded(resp.body.model_predictions[1]
                                        [ModelField(key)][i],
                                     historicPredictions'[1][i][key])
       /\ customPredictions' # customPredictions =>
          \A c \in customFetches : \A resp \in AllCustomResponses :
            (resp.ok /\ CustomResolve(c, resp)) =>
               \A i \in 1..Len(customPredictions'[1]) :
                  i <= Len(resp.body.predictions) =>
                     IsRounded(resp.body.predictions[i],
                               customPredictions'[1][i][KeyPredicted])]_vars

\* A historic series was stored from the values 41.5 and 41.49 with the
\* model value 9.9: they are 42, 41 and 10.
C13_Witness ==
    /\ historicPredictions # NULL
    /\ Len(historicPredictions[1]) = 2
    /\ historicPredictions[1][1][KeyEnsemble] = Num(4200)
    /\ historicPredictions[1][2][KeyEnsemble] = Num(4100)
    /\ \A key \in ModelKeys : historicPredictions[1][1][key] = Num(1000)
    /\ historicFetches = {}

-----------------------------------------------------------------------------
\* The body carries an array for every declared model, or no model map.
HasEveryModelArray(body) ==
    \/ body.model_predictions = UNDEFINED
    \/ ModelFields \subseteq DOMAIN body.model_predictions[1]

-----------------------------------------------------------------------------
\* C15: when a historic fetch fails, by a non-success status or by the
\* endpoint being unreachable, error is set to a message,
\* historicPredictions keeps the value it had, and no request is issued:
\* the failed fetch is gone and no other fetch appears.
C15_HistoricFailureKeepsSeries ==
    [][\A c \in historicFetches : \A resp \in HistoricResponses :
          (HistoricResolve(c, resp) /\ ~(resp.reachable /\ resp.ok)) =>
             /\ error' # NULL
             /\ historicPredictions' = historicPredictions
             /\ historicFetches' = historicFetches \ {c}
             /\ customFetches' = customFetches]_vars

\* The fetch for product "1" failed with a non-success status while the
\* series fetched earlier for product "2" is still stored.
C15_Witness ==
    /\ selectedProduct = Some("1")
    /\ historicPredictions = Some(HistoricChartData(NoMapBody))
    /\ error = Some(HistoricFailMsg)
    /\ historicFetches = {}

-----------------------------------------------------------------------------
\* The products the page has to offer: none when products is undefined.
ProductSet ==
    IF products = UNDEFINED
    THEN {}
    ELSE {products[1][i] : i \in 1..Len(products[1])}

-----------------------------------------------------------------------------
\* C17: a custom submission, at the press of the button (rejected by the
\* guard or sent) and at the arrival of its answer (success or failure),
\* leaves the custom input, historicPredictions, selectedProduct and
\* activeTab as they were.
C17_CustomSubmitFrame ==
    [][(HandleCustomSubmit \/ customFetches' # customFetches) =>
          UNCHANGED <<customInput, historicPredictions, selectedProduct,
                      activeTab>>]_vars

\* A custom submission has succeeded and the form still holds what was
\* typed; the historic series fetched before it is still stored.
C17_Witness ==
    /\ activeTab = "custom"
    /\ customPredictions # NULL
    /\ customFetches = {}
    /\ error = NULL
    /\ customInput = [product_id |-> <<"7">>, unit_price |-> <<"1", "0">>,
                      discount |-> <<"0", ".", "2">>]
    /\ historicPredictions # NULL
    /\ selectedProduct # NULL

\* C18: loading is true only while a custom submission is in flight: in
\* every reachable state loading implies that at least one is in flight,
\* so loading is false whenever none is.
C18_LoadingImpliesCustomInFlight ==
    /\ loading => customFetches # {}
    /\ customFetches = {} => ~loading

\* The converse fails: of two overlapping custom submissions the first has
\* been answered, which set loading to false, and the second is still in
\* flight.
C18_Witness ==
    /\ ~loading
    /\ Cardinality(customFetches) = 1
    /\ customPredictions # NULL

-----------------------------------------------------------------------------
\* C19: a cache that has been set is never unset again: no step takes
\* historicPredictions or customPredictions from a series back to null,
\* and a step that changes either of them is the arrival of a successful
\* answer of the same kind, historic for historicPredictions and custom for
\* customPredictions.
C19_CachesRetained ==
    [][/\ historicPredictions # NULL => historicPredictions' # NULL
       /\ customPredictions # NULL => customPredictions' # NULL
       /\ historicPredictions' # historicPredictions =>
            \E c \in historicFetches : \E resp \in HistoricResponses :
               resp.reachable /\ resp.ok /\ HistoricResolve(c, resp)
       /\ customPredictions' # customPredictions =>
            \E c \in customFetches : \E resp \in CustomResponses :
               resp.reachable /\ resp.ok /\ CustomResolve(c, resp)]_vars

\* Both caches are set, a later request has failed on the network, nothing
\* is in flight, and the caches are still there.
C19_Witness ==
    /\ historicPredictions # NULL
    /\ customPredictions # NULL
    /\ error = Some(NetworkFailMsg)
    /\ historicFetches = {} /\ customFetches = {}
    /\ activeTab = "historic"

====
